---- MODULE Spec2Model ----
(***************************************************************************)
(* NeoMart backend: the order workflow of OrderService (createOrder,       *)
(* updateOrderStatus, cancelOrder, refundOrder) together with the cart     *)
(* and catalog operations it depends on.                                   *)
(*                                                                         *)
(* Every awaited data-store call of a handler is one step of the model, so *)
(* that requests interleave exactly where the Node.js event loop lets them *)
(* interleave.  Money amounts are integers; an order total is kept in      *)
(* hundredths (total = 100 * amount) so that the percentage discount       *)
(* storeTotal * (1 - d / 100) is represented exactly.  IEEE-754 rounding   *)
(* of the JavaScript numbers is not modelled.                              *)
(***************************************************************************)
EXTENDS Integers, Sequences, FiniteSets, TLC

\* ------------------------------------------------------------------ bounds
MaxCartLen == 2
MaxEnvOps == 3
MaxOtpRequests == 7
MaxOtpOverlapping == 3
MaxRatingRequests == 3
MaxAuthRequests == 4
MaxClock == 1

\* ------------------------------------------------------------- the universe
Products == {"pA", "pB"}
Prices == {50, 100}
Calls == {"c1", "c2"}
Buyer == "u1"
Users == {"u1", "seller1", "admin", "other"}
RoleOf == [u1 |-> "USER", seller1 |-> "SELLER", admin |-> "ADMIN", other |-> "USER"]
StoreOwner == [S1 |-> "seller1", S2 |-> "seller2"]
StatusCalls == {"r1", "r2"}
OrderStatus == {"PENDING", "CONFIRMED", "PROCESSING", "SHIPPED", "DELIVERED",
                "CANCELLED", "REFUNDED"}
NoCoupon == "none"
CouponCodes == {"SAVE10"}
RequestCodes == {NoCoupon, "SAVE10"}

\* the coupon rows an administrator may have seeded (usageCount starts at 0)
CouponRow(type, discount, active, limit) ==
    [discountType |-> type, discount |-> discount, isActive |-> active,
     expiresAt |-> 1, usageLimit |-> limit, usageCount |-> 0]

CouponRows ==
    {CouponRow("PERCENTAGE", 10, TRUE, 0), CouponRow("PERCENTAGE", 10, TRUE, 1),
     CouponRow("FIXED", 60, TRUE, 1), CouponRow("PERCENTAGE", 10, FALSE, 0)}

\* the coupon table: the code SAVE10 exists with one of the rows, or not at all
CouponTables == {[c \in CouponCodes |-> row] : row \in CouponRows} \cup {<<>>}

\* every product is sold by one store
StoreOf == [pA |-> "S1", pB |-> "S2"]

\* the quantity a buyer puts in the cart, per product
QuantityOf == [pA |-> 2, pB |-> 1]
CartItems == {[productId |-> p, quantity |-> QuantityOf[p], price |-> pr] :
                 p \in Products, pr \in Prices}

VARIABLES
    product,      \* catalog: productId -> [exists, price, inStock, storeId]
    userCart,     \* the cart column of the user row (parsed)
    coupon,       \* coupon table: code -> coupon row
    now,          \* the clock coupons' expiresAt is compared with
    orders,       \* Order table, in insertion order; the id is the index
    orderItems,   \* OrderItem table, in insertion order
    co,           \* one createOrder request per element of Calls
    envOps,       \* number of cart updates and catalog writes so far
    st,           \* one order-status request per element of StatusCalls
    cartCache,    \* the cache entry cart:<userId> of the buyer
    gc,           \* a getCart request of the buyer
    otps,         \* Otp table of the user, in insertion order
    otpCache,     \* the counters otp_rate_limit:<type>:<email> and otp_attempts:...
    otpReq,       \* one sendOtp or verifyOtp request per element of OtpCalls
    otpOps,       \* number of sendOtp and verifyOtp requests started so far
    ratings,      \* Rating table, in insertion order
    rt,           \* one addRating request per element of RatingCalls
    ratingOps,    \* number of addRating requests started so far
    sessions,     \* Session table of the user, in insertion order; the id is the index
    userActive,   \* the user's isActive column
    sec,          \* the clock, in seconds (the iat of a token signed now)
    ax,           \* one auth request per element of AuthCalls
    authOps,      \* number of auth requests started so far
    issued,       \* the refresh tokens that were returned to a client
    redeemed      \* refresh token -> number of successful refreshToken calls with it

\* the cart cache and its reader
cartVars == <<cartCache, gc>>

\* the state of the other services
ratingVars == <<ratings, rt, ratingOps>>
authVars == <<sessions, userActive, sec, ax, authOps, issued, redeemed>>
elsewhere == <<otps, otpCache, otpReq, otpOps, ratingVars, authVars>>

vars == <<product, userCart, coupon, now, orders, orderItems, co, envOps, st,
          cartVars, elsewhere>>

\* ---------------------------------------------------------------- helpers
Max(a, b) == IF a >= b THEN a ELSE b

RECURSIVE SumItems(_)
\* items.reduce((sum, item) => sum + item.price * item.quantity, 0)
SumItems(items) ==
    IF items = <<>> THEN 0
    ELSE Head(items).price * Head(items).quantity + SumItems(Tail(items))

storeTotalOf(storeItems) == SumItems(storeItems)

\* itemsByStore is a Map: insertion order of the first occurrence of a key
HasStore(groups, s) == \E k \in 1..Len(groups) : groups[k].storeId = s

\* a grouping that opens a new group for every cart item
itemsByStorePushAlways(groups, s, item) ==
    Append(groups, [storeId |-> s, items |-> <<item>>])

\* a grouping that keeps one group for the whole cart
itemsByStorePushMixed(groups, s, item) ==
    IF groups = <<>>
    THEN <<[storeId |-> s, items |-> <<item>>]>>
    ELSE <<[groups[1] EXCEPT !.items = Append(@, item)]>>

itemsByStorePush(groups, s, item) ==
    IF HasStore(groups, s)
    THEN [k \in 1..Len(groups) |->
            IF groups[k].storeId = s
            THEN [groups[k] EXCEPT !.items = Append(@, item)]
            ELSE groups[k]]
    ELSE Append(groups, [storeId |-> s, items |-> <<item>>])

\* a check that forgets the expiry date
couponApplicableNoExpiry(code) ==
    /\ code \in DOMAIN coupon
    /\ coupon[code].isActive

\* coupon && coupon.isActive && coupon.expiresAt > new Date()
couponApplicable(code) ==
    /\ code \in DOMAIN coupon
    /\ coupon[code].isActive
    /\ coupon[code].expiresAt > now

\* a limit check that is off by one
usageLimitExceededStrict(cp) == cp.usageLimit > 0 /\ cp.usageCount > cp.usageLimit

\* coupon.usageLimit > 0 && coupon.usageCount >= coupon.usageLimit
usageLimitExceeded(cp) == cp.usageLimit > 0 /\ cp.usageCount >= cp.usageLimit

\* the discounted total, in hundredths
applyDiscount(cp, storeTotal) ==
    IF cp.discountType = "PERCENTAGE"
    THEN storeTotal * (100 - cp.discount)
    ELSE Max(0, storeTotal - cp.discount) * 100

\* item checks that forget to compare the prices
itemCheckNoPrice(item) ==
    LET p == product[item.productId] IN
    IF ~p.exists THEN "ProductNotFound"
    ELSE IF ~p.inStock THEN "OutOfStock"
    ELSE "ok"

\* the per-item checks with the price compared before the stock flag
itemCheckPriceFirst(item) ==
    LET p == product[item.productId] IN
    IF ~p.exists THEN "ProductNotFound"
    ELSE IF p.price # item.price THEN "PriceChanged"
    ELSE IF ~p.inStock THEN "OutOfStock"
    ELSE "ok"

\* the per-item checks of createOrder and updateCart, in code order
itemCheck(item) ==
    LET p == product[item.productId] IN
    IF ~p.exists THEN "ProductNotFound"
    ELSE IF ~p.inStock THEN "OutOfStock"
    ELSE IF p.price # item.price THEN "PriceChanged"
    ELSE "ok"

cartValid(items) == \A k \in 1..Len(items) : itemCheck(items[k]) = "ok"

\* what is true of a cart when a request reads it (recorded for the claims)
cartAllGood(items) ==
    \A k \in 1..Len(items) :
        /\ product[items[k].productId].exists
        /\ product[items[k].productId].inStock
        /\ product[items[k].productId].price = items[k].price

cartStale(items) ==
    \E k \in 1..Len(items) :
        /\ product[items[k].productId].exists
        /\ product[items[k].productId].price # items[k].price

cartMissing(items) ==
    \E k \in 1..Len(items) : ~product[items[k].productId].exists

httpStatus(err) ==
    CASE err = "ProductNotFound" -> 404
      [] err \in {"CartEmpty", "OutOfStock", "PriceChanged", "CouponLimit"} -> 400
      [] err = "TxFailed" -> 500
      [] OTHER -> 0

\* ------------------------------------------------------------------- Init
IdleCall ==
    [pc |-> "idle", couponCode |-> NoCoupon, cart |-> <<>>, i |-> 1,
     itemsByStore |-> <<>>, g |-> 1, finalTotal |-> 0, couponUsed |-> FALSE,
     t |-> 0, orderNumber |-> 0, orders |-> <<>>, error |-> "none",
     result |-> [single |-> FALSE, orders |-> <<>>],
     validAtRead |-> FALSE, staleAtRead |-> FALSE, missingAtRead |-> FALSE,
     exhaustedAtRead |-> FALSE, increments |-> 0, rolledBack |-> 0,
     cartOverwritten |-> FALSE]

\* OTP requests for one email address and one OTP type
OtpCalls == {"o1", "o2"}
OtpCodes == {"111111", "222222"}
OtpRateLimit == 5
OtpAttemptLimit == 10

\* an absent counter reads as null, and incr creates it with 1
NoCounters == [rate |-> 0, attempts |-> 0]

IdleOtpCall == [pc |-> "idle", op |-> "none", code |-> "none", otp |-> 0,
                error |-> "none"]

\* addRating requests
RatingCalls == {"a1", "a2"}
IdleRatingCall == [pc |-> "idle", userId |-> "none", productId |-> "none",
                   orderId |-> 0, error |-> "none"]

\* auth requests of one user. A refresh token is jwt.sign of the payload
\* {userId, email, role} with iat, the time of signing in whole seconds:
\* for one user it is determined by the second in which it is signed.
AuthCalls == {"x1", "x2"}
Tokens == 0..MaxClock
NoToken == -1
IdleAuthCall == [pc |-> "idle", op |-> "none", sid |-> 0, token |-> NoToken,
                 newToken |-> NoToken, error |-> "none", revoked |-> FALSE]

\* the cache entry of the cart: absent, or the cart that was cached
NoEntry == [hit |-> FALSE, items |-> <<>>]
cacheSet(items) == [hit |-> TRUE, items |-> items]

IdleGetCart == [pc |-> "idle", cart |-> <<>>]

IdleStatusCall ==
    [pc |-> "idle", op |-> "none", orderId |-> 0, target |-> "none",
     userId |-> "none", read |-> "none", error |-> "none"]

Init ==
    /\ st = [r \in StatusCalls |-> IdleStatusCall]
    /\ product = [p \in Products |->
                    [exists |-> TRUE, price |-> IF p = "pA" THEN 100 ELSE 50,
                     inStock |-> TRUE, storeId |-> StoreOf[p]]]
    /\ userCart = <<>>
    /\ coupon \in CouponTables
    /\ now = 0
    /\ orders = <<>>
    /\ orderItems = <<>>
    /\ co = [c \in Calls |-> IdleCall]
    /\ envOps = 0
    /\ cartCache = NoEntry
    /\ gc = IdleGetCart
    /\ otps = <<>>
    /\ otpCache = NoCounters
    /\ otpReq = [o \in OtpCalls |-> IdleOtpCall]
    /\ otpOps = 0
    /\ ratings = <<>>
    /\ rt = [a \in RatingCalls |-> IdleRatingCall]
    /\ ratingOps = 0
    /\ sessions = <<>>
    /\ userActive = TRUE
    /\ sec = 0
    /\ ax = [x \in AuthCalls |-> IdleAuthCall]
    /\ authOps = 0
    /\ issued = {}
    /\ redeemed = [t \in Tokens |-> 0]

\* the request has returned or thrown: its locals are gone; what it read,
\* what it created and how it ended are remembered
finished(rec, pc, err) ==
    [rec EXCEPT !.pc = pc, !.error = err, !.i = 1, !.itemsByStore = <<>>,
                !.g = 1, !.finalTotal = 0, !.couponUsed = FALSE, !.t = 0,
                !.orderNumber = 0]

\* the budget of cart updates and catalog writes of one exploration
envOp ==
    /\ envOps < MaxEnvOps
    /\ envOps' = envOps + 1

\* ------------------------------------------------------ catalog and cart
\* the createOrder requests that hold a cart they have read and not cleared
holdsCart(c) ==
    co[c].pc \in {"validate", "coupon", "couponUpdate", "tx", "txItem", "clearCart"}

\* UserService.updateCart: every item is checked against the live product,
\* then the cart column is overwritten and the cart is cached
\* (cartOverwritten remembers, for a createOrder request that holds the
\* cart it read, that the stored cart was replaced meanwhile)
updateCart(items) ==
    /\ envOp
    /\ cartValid(items)
    /\ userCart' = items
    /\ cartCache' = cacheSet(items)
    /\ co' = [c \in Calls |->
                IF holdsCart(c) /\ items # co[c].cart
                THEN [co[c] EXCEPT !.cartOverwritten = TRUE]
                ELSE co[c]]
    /\ UNCHANGED <<product, coupon, now, orders, orderItems, st, gc, elsewhere>>

\* UserService.getCart, lines 150-154: the cached cart is returned
getCartCached ==
    /\ gc.pc \in {"idle", "done"}
    /\ cartCache.hit
    /\ gc' = [pc |-> "done", cart |-> cartCache.items]
    /\ UNCHANGED <<product, userCart, coupon, now, orders, orderItems, co, envOps,
                   st, cartCache, elsewhere>>

\* UserService.getCart, lines 156-165: no cache entry, the stored cart is read
getCartRead ==
    /\ gc.pc \in {"idle", "done"}
    /\ ~cartCache.hit
    /\ gc' = [pc |-> "cache", cart |-> userCart]
    /\ UNCHANGED <<product, userCart, coupon, now, orders, orderItems, co, envOps,
                   st, cartCache, elsewhere>>

\* UserService.getCart, lines 167-174: the cart read is cached and returned
getCartCache ==
    /\ gc.pc = "cache"
    /\ cartCache' = cacheSet(gc.cart)
    /\ gc' = [gc EXCEPT !.pc = "done"]
    /\ UNCHANGED <<product, userCart, coupon, now, orders, orderItems, co, envOps,
                   st, elsewhere>>

getCart == getCartCached \/ getCartRead \/ getCartCache

\* UserService.clearCart: the stored cart is emptied, the cache entry deleted
clearCart ==
    /\ userCart # <<>> \/ cartCache.hit
    /\ userCart' = <<>>
    /\ cartCache' = NoEntry
    /\ UNCHANGED <<product, coupon, now, orders, orderItems, co, envOps, st, gc,
                   elsewhere>>

\* the cache entry reaches its time to live (cacheTTL.cart)
cacheExpire ==
    /\ cartCache.hit
    /\ cartCache' = NoEntry
    /\ UNCHANGED <<product, userCart, coupon, now, orders, orderItems, co, envOps,
                   st, gc, elsewhere>>

\* ProductService.updateProduct with a new price
updateProduct(p, price) ==
    /\ product[p].exists
    /\ price # product[p].price
    /\ product' = [product EXCEPT ![p].price = price]
    /\ envOp
    /\ UNCHANGED <<userCart, coupon, now, orders, orderItems, co, st, cartVars, elsewhere>>

\* the catalog's stock flag changes (inventory management)
setInStock(p, b) ==
    /\ product[p].exists
    /\ b # product[p].inStock
    /\ product' = [product EXCEPT ![p].inStock = b]
    /\ envOp
    /\ UNCHANGED <<userCart, coupon, now, orders, orderItems, co, st, cartVars, elsewhere>>

activeOrders(p) ==
    {k \in 1..Len(orderItems) :
        /\ orderItems[k].productId = p
        /\ orders[orderItems[k].orderId].status
             \in {"PENDING", "CONFIRMED", "PROCESSING", "SHIPPED"}}

\* ProductService.deleteProduct
deleteProduct(p) ==
    /\ product[p].exists
    /\ activeOrders(p) = {}
    /\ product' = [product EXCEPT ![p] =
                      [exists |-> FALSE, price |-> 0, inStock |-> FALSE,
                       storeId |-> @.storeId]]
    /\ envOp
    /\ UNCHANGED <<userCart, coupon, now, orders, orderItems, co, st, cartVars, elsewhere>>

\* time passes the coupons' expiry date
Tick ==
    /\ now = 0
    /\ now' = 1
    /\ UNCHANGED <<product, userCart, coupon, orders, orderItems, co, envOps, st, cartVars, elsewhere>>

\* ------------------------------------------------------------ createOrder
\* where the loop over the store groups continues for group g
groupEntry(code) == IF code # NoCoupon THEN "coupon" ELSE "tx"

\* lines 138-151: read the user's cart, fail fast if it is empty
coReadCart(c, code) ==
    /\ co[c].pc = "idle"
    /\ co' = [co EXCEPT ![c] =
                [@ EXCEPT !.couponCode = code,
                          !.cart = userCart,
                          !.validAtRead = cartAllGood(userCart),
                          !.staleAtRead = cartStale(userCart),
                          !.missingAtRead = cartMissing(userCart),
                          !.exhaustedAtRead =
                              /\ code \in DOMAIN coupon
                              /\ coupon[code].usageLimit > 0
                              /\ coupon[code].usageCount = coupon[code].usageLimit,
                          !.pc = IF userCart = <<>> THEN "failed" ELSE "validate",
                          !.error = IF userCart = <<>> THEN "CartEmpty" ELSE "none"]]
    /\ UNCHANGED <<product, userCart, coupon, now, orders, orderItems, envOps, st, cartVars, elsewhere>>

\* lines 156-181: one iteration of the validation loop
coValidateItem(c) ==
    /\ co[c].pc = "validate"
    /\ LET item == co[c].cart[co[c].i]
           res == itemCheck(item)
           groups == itemsByStorePush(co[c].itemsByStore,
                                      product[item.productId].storeId, item)
       IN  co' = [co EXCEPT ![c] =
                IF res # "ok"
                THEN finished(@, "failed", res)
                ELSE [@ EXCEPT !.itemsByStore = groups,
                               !.i = @ + 1,
                               !.pc = IF co[c].i = Len(co[c].cart)
                                      THEN groupEntry(co[c].couponCode)
                                      ELSE "validate"]]
    /\ UNCHANGED <<product, userCart, coupon, now, orders, orderItems, envOps, st, cartVars, elsewhere>>

\* a subtotal taken over the whole cart instead of the group
storeTotalOfCart(c) == storeTotalOf(co[c].cart)

\* line 187: the subtotal of the store group the loop is at
storeTotal(c) == storeTotalOf(co[c].itemsByStore[co[c].g].items)

\* lines 188-211: the coupon lookup for the group and its evaluation
coCoupon(c) ==
    /\ co[c].pc = "coupon"
    /\ LET code == co[c].couponCode
       IN  co' = [co EXCEPT ![c] =
                IF ~couponApplicable(code)
                THEN [@ EXCEPT !.finalTotal = storeTotal(c) * 100,
                               !.couponUsed = FALSE, !.pc = "tx"]
                ELSE IF usageLimitExceeded(coupon[code])
                THEN finished(@, "failed", "CouponLimit")
                ELSE [@ EXCEPT !.finalTotal = applyDiscount(coupon[code], storeTotal(c)),
                               !.couponUsed = TRUE, !.pc = "couponUpdate"]]
    /\ UNCHANGED <<product, userCart, coupon, now, orders, orderItems, envOps, st, cartVars, elsewhere>>

\* lines 213-216: usageCount: { increment: 1 }
coCouponUpdate(c) ==
    /\ co[c].pc = "couponUpdate"
    /\ coupon' = [coupon EXCEPT ![co[c].couponCode].usageCount = @ + 1]
    /\ co' = [co EXCEPT ![c].pc = "tx", ![c].increments = @ + 1]
    /\ UNCHANGED <<product, userCart, now, orders, orderItems, envOps, st, cartVars, elsewhere>>

\* lines 188, 229: finalTotal is storeTotal unless a coupon changed it
groupTotal(c) ==
    IF co[c].couponCode = NoCoupon
    THEN storeTotal(c) * 100
    ELSE co[c].finalTotal

groupCouponUsed(c) == co[c].couponCode # NoCoupon /\ co[c].couponUsed

newOrderItems(orderId, storeItems) ==
    [k \in 1..Len(storeItems) |->
        [orderId |-> orderId, productId |-> storeItems[k].productId,
         quantity |-> storeItems[k].quantity, price |-> storeItems[k].price]]

\* where the request continues after the commit of group g
afterGroup(c) ==
    IF co[c].g = Len(co[c].itemsByStore) THEN "clearCart"
    ELSE groupEntry(co[c].couponCode)

\* the order numbers in the Order table and in the running transactions
orderNumbersInUse ==
    {orders[k].orderNumber : k \in 1..Len(orders)}
        \cup {co[c].orderNumber : c \in {x \in Calls : co[x].pc = "txItem"}}

RECURSIVE MaxOf(_)
MaxOf(S) ==
    IF S = {} THEN 0
    ELSE LET x == CHOOSE y \in S : TRUE IN Max(x, MaxOf(S \ {x}))

\* line 221: ORD-<Date.now()>-<Math.random() suffix>.  Nothing relates the
\* draw to the numbers drawn before: up to renaming it is one of the
\* numbers in use or a new one
orderNumberDraws == 1..(MaxOf(orderNumbersInUse) + 1)

\* an Order table without a unique index on orderNumber
orderNumberAny(num) == TRUE

\* the unique index on Order.orderNumber: a row with a number that a
\* committed row holds is rejected
orderNumberFree(num) == \A k \in 1..Len(orders) : orders[k].orderNumber # num

\* lines 221-236: the order number is drawn, the transaction of group g
\* begins and inserts the Order row; until the commit the insert is visible
\* to the transaction only
coTxOrderCreate(c) ==
    /\ co[c].pc = "tx"
    /\ \E num \in orderNumberDraws :
          /\ orderNumberFree(num)
          /\ co' = [co EXCEPT ![c].pc = "txItem", ![c].t = 0,
                              ![c].orderNumber = num]
    /\ UNCHANGED <<product, userCart, coupon, now, orders, orderItems, envOps, st, cartVars, elsewhere>>

\* lines 239-247: the transaction inserts the OrderItem row of the next item
coTxItemCreate(c) ==
    /\ co[c].pc = "txItem"
    /\ co[c].t < Len(co[c].itemsByStore[co[c].g].items)
    /\ co' = [co EXCEPT ![c].t = @ + 1]
    /\ UNCHANGED <<product, userCart, coupon, now, orders, orderItems, envOps, st, cartVars, elsewhere>>

\* the rows the transaction of group g has inserted so far
txOrder(c, id) ==
    [id |-> id, orderNumber |-> co[c].orderNumber,
     total |-> groupTotal(c), status |-> "PENDING",
     userId |-> Buyer, storeId |-> co[c].itemsByStore[co[c].g].storeId,
     isCouponUsed |-> groupCouponUsed(c),
     coupon |-> IF groupCouponUsed(c) THEN co[c].couponCode ELSE NoCoupon,
     call |-> c]

txItems(c, id) ==
    SubSeq(newOrderItems(id, co[c].itemsByStore[co[c].g].items), 1, co[c].t)

\* lines 256-259: the callback returns and the transaction commits: the
\* Order row and its OrderItem rows become visible together
coTxCommit(c) ==
    /\ co[c].pc = "txItem"
    /\ co[c].t = Len(co[c].itemsByStore[co[c].g].items)
    /\ orderNumberFree(co[c].orderNumber)
    /\ LET id == Len(orders) + 1
       IN  /\ orders' = Append(orders, txOrder(c, id))
           /\ orderItems' = orderItems \o txItems(c, id)
           /\ co' = [co EXCEPT ![c].orders = Append(@, id),
                               ![c].g = @ + 1,
                               ![c].t = 0,
                               ![c].orderNumber = 0,
                               ![c].pc = afterGroup(c)]
    /\ UNCHANGED <<product, userCart, coupon, now, envOps, st, cartVars, elsewhere>>

\* a failure path that also clears the cart
coTxFailClearsCart(c) ==
    /\ co[c].pc \in {"tx", "txItem"}
    /\ co' = [co EXCEPT ![c] = finished(@, "failed", "TxFailed")]
    /\ userCart' = <<>>
    /\ UNCHANGED <<product, coupon, now, orders, orderItems, envOps, st, cartVars, elsewhere>>

\* a failure that leaves behind the rows inserted before it
coTxFailKeepsRows(c) ==
    /\ co[c].pc = "txItem"
    /\ LET id == Len(orders) + 1
       IN  /\ orders' = Append(orders, txOrder(c, id))
           /\ orderItems' = orderItems \o txItems(c, id)
    /\ co' = [co EXCEPT ![c] = finished(@, "failed", "TxFailed")]
    /\ UNCHANGED <<product, userCart, coupon, now, envOps, st, cartVars, elsewhere>>

\* a failure that also undoes the orders of the groups committed before
coTxFailUndoesAll(c) ==
    /\ co[c].pc \in {"tx", "txItem"}
    /\ co' = [co EXCEPT ![c] = finished(@, "failed", "TxFailed")]
    /\ orders' = SelectSeq(orders, LAMBDA o : o.call # c)
    /\ orderItems' = SelectSeq(orderItems, LAMBDA it : orders[it.orderId].call # c)
    /\ UNCHANGED <<product, userCart, coupon, now, envOps, st, cartVars, elsewhere>>

\* lines 224-257: an insert of the transaction of group g is rejected; the
\* error leaves the callback and the transaction is rolled back (rolledBack
\* remembers how many rows it had inserted)
coTxFail(c) ==
    /\ co[c].pc \in {"tx", "txItem"}
    /\ co' = [co EXCEPT ![c] =
                [finished(@, "failed", "TxFailed") EXCEPT
                    !.rolledBack = IF co[c].pc = "tx" THEN 0 ELSE 1 + co[c].t]]
    /\ UNCHANGED <<product, userCart, coupon, now, orders, orderItems, envOps, st, cartVars, elsewhere>>

\* a clear that checks the cart has not changed since it was read
coClearCartIfUnchanged(c) ==
    /\ co[c].pc = "clearCart"
    /\ userCart' = IF userCart = co[c].cart THEN <<>> ELSE userCart
    /\ co' = [co EXCEPT ![c] = finished(@, "done", "none")]
    /\ UNCHANGED <<product, coupon, now, orders, orderItems, envOps, st, cartVars,
                   elsewhere>>

\* a return value that is a list whatever its length
returnValueAlwaysList(os) == [single |-> FALSE, orders |-> os]

\* line 271: orders.length === 1 ? orders[0] : orders
returnValue(os) == [single |-> Len(os) = 1, orders |-> os]

\* lines 263-271: the cart is overwritten with the empty cart and the
\* orders are returned
coClearCart(c) ==
    /\ co[c].pc = "clearCart"
    /\ userCart' = <<>>
    /\ co' = [co EXCEPT ![c] =
                [finished(@, "done", "none") EXCEPT
                    !.result = returnValue(co[c].orders)]]
    /\ UNCHANGED <<product, coupon, now, orders, orderItems, envOps, st, cartVars, elsewhere>>

createOrder(c) ==
    \/ \E code \in RequestCodes : coReadCart(c, code)
    \/ coValidateItem(c)
    \/ coCoupon(c)
    \/ coCouponUpdate(c)
    \/ coTxOrderCreate(c)
    \/ coTxItemCreate(c)
    \/ coTxCommit(c)
    \/ coTxFail(c)
    \/ coClearCart(c)

\* the response has been sent: nothing of the request is left
respond(c) ==
    /\ co[c].pc \in {"done", "failed"}
    /\ co' = [co EXCEPT ![c] = [IdleCall EXCEPT !.pc = "closed"]]
    /\ UNCHANGED <<product, userCart, coupon, now, orders, orderItems, envOps, st, cartVars, elsewhere>>

\* requests are served one after the other, c1 before c2
Turn(c) ==
    IF c = "c1" THEN co["c2"].pc = "idle"
    ELSE co["c1"].pc = "closed"

Carts == UNION {[1..n -> CartItems] : n \in 0..MaxCartLen}

\* no createOrder request is in flight, and one is still to come
Quiet ==
    /\ \A c \in Calls : co[c].pc \in {"idle", "closed"}
    /\ \E c \in Calls : co[c].pc = "idle"

Next ==
    \/ \E items \in Carts : Quiet /\ updateCart(items)
    \/ \E p \in Products, price \in Prices : Quiet /\ updateProduct(p, price)
    \/ \E p \in Products, b \in BOOLEAN : Quiet /\ setInStock(p, b)
    \/ \E p \in Products : Quiet /\ deleteProduct(p)
    \/ Quiet /\ Tick
    \/ \E c \in Calls : Turn(c) /\ createOrder(c)
    \/ \E c \in Calls : respond(c)

Spec == Init /\ [][Next]_vars

\* -------------------------------------------------- order status requests
\* a table that has lost the edge DELIVERED -> REFUNDED
validTransitionsNoRefund ==
    [PENDING |-> {"CONFIRMED", "CANCELLED"},
     CONFIRMED |-> {"PROCESSING", "CANCELLED"},
     PROCESSING |-> {"SHIPPED", "CANCELLED"},
     SHIPPED |-> {"DELIVERED"},
     DELIVERED |-> {},
     CANCELLED |-> {},
     REFUNDED |-> {}]

\* lines 492-500
validTransitions ==
    [PENDING |-> {"CONFIRMED", "CANCELLED"},
     CONFIRMED |-> {"PROCESSING", "CANCELLED"},
     PROCESSING |-> {"SHIPPED", "CANCELLED"},
     SHIPPED |-> {"DELIVERED"},
     DELIVERED |-> {"REFUNDED"},
     CANCELLED |-> {},
     REFUNDED |-> {}]

orderExists(id) == id \in 1..Len(orders)

\* order.store.userId
sellerOf(id) == StoreOwner[orders[id].storeId]

isAdmin(u) == RoleOf[u] \in {"ADMIN", "FOUNDER"}

statusCall(op, id, target, u) ==
    [IdleStatusCall EXCEPT !.op = op, !.orderId = id, !.target = target,
                           !.userId = u]

statusFailed(rec, err) == [rec EXCEPT !.pc = "failed", !.error = err]

statusRead(rec, id) == [rec EXCEPT !.pc = "write", !.read = orders[id].status]

statusFrame ==
    UNCHANGED <<product, userCart, coupon, now, orderItems, co, envOps,
                cartVars, elsewhere>>

\* lines 474-504: updateOrderStatus reads the order and checks the
\* caller and the transition
uosRead(r, id, target, u) ==
    /\ st[r].pc \in {"idle", "done", "failed"}
    /\ LET rec == statusCall("updateOrderStatus", id, target, u)
       IN  st' = [st EXCEPT ![r] =
                IF ~orderExists(id) THEN statusFailed(rec, "NotFound")
                ELSE IF sellerOf(id) # u THEN statusFailed(rec, "AccessDenied")
                ELSE IF target \notin validTransitions[orders[id].status]
                THEN statusFailed(rec, "InvalidState")
                ELSE statusRead(rec, id)]
    /\ UNCHANGED orders
    /\ statusFrame

\* lines 506-528: updateOrderStatus writes the status
uosWrite(r) ==
    /\ st[r].pc = "write"
    /\ st[r].op = "updateOrderStatus"
    /\ orders' = [orders EXCEPT ![st[r].orderId].status = st[r].target]
    /\ st' = [st EXCEPT ![r].pc = "done"]
    /\ statusFrame

\* a check that also lets a shipped order be cancelled
cancellableWithShipped == {"PENDING", "CONFIRMED", "PROCESSING", "SHIPPED"}

\* line 559: the statuses in which an order can be cancelled
cancellable == {"PENDING", "CONFIRMED", "PROCESSING"}

\* authorizeOrderAccess, then lines 537-561 of cancelOrder
cancelRead(r, id, u) ==
    /\ st[r].pc \in {"idle", "done", "failed"}
    /\ LET rec == statusCall("cancelOrder", id, "CANCELLED", u)
       IN  st' = [st EXCEPT ![r] =
                IF ~orderExists(id) THEN statusFailed(rec, "NotFound")
                ELSE IF ~isAdmin(u) /\ orders[id].userId # u /\ sellerOf(id) # u
                THEN statusFailed(rec, "AccessDenied")
                ELSE IF ~(orders[id].userId = u \/ sellerOf(id) = u)
                THEN statusFailed(rec, "AccessDenied")
                ELSE IF orders[id].status \notin cancellable
                THEN statusFailed(rec, "InvalidState")
                ELSE statusRead(rec, id)]
    /\ UNCHANGED orders
    /\ statusFrame

\* lines 563-569: cancelOrder writes CANCELLED
cancelWrite(r) ==
    /\ st[r].pc = "write"
    /\ st[r].op = "cancelOrder"
    /\ orders' = [orders EXCEPT ![st[r].orderId].status = "CANCELLED"]
    /\ st' = [st EXCEPT ![r].pc = "done"]
    /\ statusFrame

\* authorize('ADMIN', 'FOUNDER'), then lines 629-640 of refundOrder
refundRead(r, id, u) ==
    /\ st[r].pc \in {"idle", "done", "failed"}
    /\ LET rec == statusCall("refundOrder", id, "REFUNDED", u)
       IN  st' = [st EXCEPT ![r] =
                IF ~isAdmin(u) THEN statusFailed(rec, "AccessDenied")
                ELSE IF ~orderExists(id) THEN statusFailed(rec, "NotFound")
                ELSE IF orders[id].status # "DELIVERED"
                THEN statusFailed(rec, "InvalidState")
                ELSE statusRead(rec, id)]
    /\ UNCHANGED orders
    /\ statusFrame

\* lines 642-648: refundOrder writes REFUNDED
refundWrite(r) ==
    /\ st[r].pc = "write"
    /\ st[r].op = "refundOrder"
    /\ orders' = [orders EXCEPT ![st[r].orderId].status = "REFUNDED"]
    /\ st' = [st EXCEPT ![r].pc = "done"]
    /\ statusFrame

\* the order ids a request may name: the existing order and a missing one
RequestIds == {1, 2}

\* the state after the buyer's checkout of 2 x pA: one PENDING order
InitStatus ==
    /\ st = [r \in StatusCalls |-> IdleStatusCall]
    /\ product = [p \in Products |->
                    [exists |-> TRUE, price |-> IF p = "pA" THEN 100 ELSE 50,
                     inStock |-> TRUE, storeId |-> StoreOf[p]]]
    /\ userCart = <<>>
    /\ coupon = [c \in CouponCodes |-> CouponRow("PERCENTAGE", 10, TRUE, 0)]
    /\ now = 0
    /\ orders = <<[id |-> 1, orderNumber |-> 1, total |-> 20000, status |-> "PENDING",
                   userId |-> Buyer, storeId |-> "S1", isCouponUsed |-> FALSE,
                   coupon |-> NoCoupon, call |-> "c1"]>>
    /\ orderItems = <<[orderId |-> 1, productId |-> "pA", quantity |-> 2,
                       price |-> 100]>>
    /\ co = [c \in Calls |-> IF c = "c1" THEN [IdleCall EXCEPT !.pc = "closed"]
                             ELSE IdleCall]
    /\ envOps = 1
    /\ cartCache = NoEntry
    /\ gc = IdleGetCart
    /\ otps = <<>>
    /\ otpCache = NoCounters
    /\ otpReq = [o \in OtpCalls |-> IdleOtpCall]
    /\ otpOps = 0
    /\ ratings = <<>>
    /\ rt = [a \in RatingCalls |-> IdleRatingCall]
    /\ ratingOps = 0
    /\ sessions = <<>>
    /\ userActive = TRUE
    /\ sec = 0
    /\ ax = [x \in AuthCalls |-> IdleAuthCall]
    /\ authOps = 0
    /\ issued = {}
    /\ redeemed = [t \in Tokens |-> 0]

NextStatus ==
    \/ \E r \in StatusCalls, id \in RequestIds, target \in OrderStatus, u \in Users :
          uosRead(r, id, target, u)
    \/ \E r \in StatusCalls : uosWrite(r)
    \/ \E r \in StatusCalls, id \in RequestIds, u \in Users : cancelRead(r, id, u)
    \/ \E r \in StatusCalls : cancelWrite(r)
    \/ \E r \in StatusCalls, id \in RequestIds, u \in Users : refundRead(r, id, u)
    \/ \E r \in StatusCalls : refundWrite(r)

SpecStatus == InitStatus /\ [][NextStatus]_vars

\* ================================================================ claims
Ended(c) == co[c].pc \in {"done", "failed"}

\* the Order rows a request has created, and the OrderItem rows of an order
ordersOf(c) == {k \in 1..Len(orders) : orders[k].call = c}
itemsOf(k) == {j \in 1..Len(orderItems) : orderItems[j].orderId = k}

RECURSIVE LineSum(_)
LineSum(js) ==
    IF js = {} THEN 0
    ELSE LET j == CHOOSE x \in js : TRUE
         IN  orderItems[j].price * orderItems[j].quantity + LineSum(js \ {j})

cartStores(items) == {StoreOf[items[k].productId] : k \in 1..Len(items)}

OneOrderPerStore(c) ==
    /\ \A s \in cartStores(co[c].cart) :
         Cardinality({k \in ordersOf(c) : orders[k].storeId = s}) = 1
    /\ \A k \in ordersOf(c) : orders[k].storeId \in cartStores(co[c].cart)

\* what an order's total must be, in hundredths, given its own line items
ExpectedTotal(k) ==
    LET S == LineSum(itemsOf(k)) IN
    IF ~orders[k].isCouponUsed THEN 100 * S
    ELSE LET cp == coupon[orders[k].coupon] IN
         IF cp.discountType = "PERCENTAGE" THEN S * (100 - cp.discount)
         ELSE IF S >= cp.discount THEN 100 * (S - cp.discount) ELSE 0

TotalsMatchLines == \A k \in 1..Len(orders) : orders[k].total = ExpectedTotal(k)

\* C1 (as amended): a request on a non-empty cart whose items are all
\* existing, in stock and price-matching fails only on the coupon's usage
\* limit or on a failed order transaction; when it succeeds there is exactly
\* one order per distinct store of the cart; every order's total is the sum
\* of price * quantity over its own line items, adjusted by its coupon.
C1_OrdersPerStore ==
    /\ \A c \in Calls :
         /\ (co[c].pc = "failed" /\ co[c].validAtRead /\ co[c].cart # <<>>)
               => co[c].error \in {"CouponLimit", "TxFailed"}
         /\ co[c].pc = "done" => OneOrderPerStore(c)
    /\ TotalsMatchLines

C1_Witness ==
    \E c \in Calls :
        /\ co[c].pc = "done"
        /\ Cardinality(ordersOf(c)) = 2
        /\ \A k \in ordersOf(c) : orders[k].isCouponUsed

\* C1 as stated: every request on a non-empty, all-valid cart succeeds with
\* one order per store (a failure of the data store itself set aside).
C1_AlwaysSucceeds ==
    \A c \in Calls :
        (Ended(c) /\ co[c].validAtRead /\ co[c].cart # <<>>
                  /\ co[c].error # "TxFailed")
            => (co[c].pc = "done" /\ OneOrderPerStore(c))

\* C2 (as amended): when an item of the cart has a price other than the
\* product's live price, the request fails and creates no Order or OrderItem
\* row, wherever the item sits; the failure is a 400, or the 404 of a cart
\* item whose product is missing.
C2_StalePriceFails ==
    \A c \in Calls :
        co[c].staleAtRead =>
            /\ co[c].pc \in {"validate", "failed"}
            /\ ordersOf(c) = {}
            /\ \A j \in 1..Len(orderItems) : orders[orderItems[j].orderId].call # c
            /\ co[c].pc = "failed" =>
                 /\ httpStatus(co[c].error) \in {400, 404}
                 /\ httpStatus(co[c].error) = 404 => co[c].missingAtRead

C2_Witness ==
    \E c \in Calls :
        /\ co[c].pc = "failed"
        /\ co[c].error = "PriceChanged"
        /\ Len(co[c].cart) = 2
        /\ product[co[c].cart[1].productId].price = co[c].cart[1].price

\* C2 as stated: a cart with a stale price always fails with HTTP 400.
C2_Always400 ==
    \A c \in Calls :
        (co[c].staleAtRead /\ Ended(c))
            => (co[c].pc = "failed" /\ httpStatus(co[c].error) = 400
                /\ ordersOf(c) = {})

\* C3: the stored cart is overwritten with the empty cart only by a request
\* all of whose store groups are committed; until then, and whenever the
\* request fails, the stored cart is the cart the request read.
C3_CartOnlyClearedOnSuccess ==
    \A c \in Calls :
        /\ co[c].pc \in {"validate", "coupon", "couponUpdate", "tx", "txItem",
                         "clearCart", "failed"}
              => userCart = co[c].cart
        /\ co[c].pc = "done" =>
              /\ userCart = <<>>
              /\ \A s \in cartStores(co[c].cart) :
                    \E k \in ordersOf(c) : orders[k].storeId = s

C3_Witness ==
    \E c \in Calls :
        /\ co[c].pc = "failed"
        /\ co[c].error = "TxFailed"
        /\ ordersOf(c) # {}
        /\ userCart # <<>>

\* C4 (as amended): a request that supplies an active, unexpired coupon
\* with usageLimit > 0 and usageCount = usageLimit, on a valid cart, is
\* rejected with 400; whether or not the coupon is active and unexpired,
\* the request applies it to no order and never increments its usageCount.
C4_ExhaustedCouponRejected ==
    \A c \in Calls :
        co[c].exhaustedAtRead =>
            /\ co[c].increments = 0
            /\ coupon[co[c].couponCode].usageCount
                 = coupon[co[c].couponCode].usageLimit
            /\ \A k \in ordersOf(c) : ~orders[k].isCouponUsed
            /\ (co[c].pc = "done") =>
                 ~(/\ coupon[co[c].couponCode].isActive
                   /\ coupon[co[c].couponCode].expiresAt > now)
            /\ (co[c].pc = "failed" /\ co[c].validAtRead /\ co[c].cart # <<>>
                  /\ co[c].error # "TxFailed")
                 => (co[c].error = "CouponLimit" /\ httpStatus(co[c].error) = 400)

C4_Witness ==
    \E c \in Calls :
        /\ co[c].exhaustedAtRead
        /\ co[c].pc = "failed"
        /\ co[c].error = "CouponLimit"

\* C4 as stated: every request on a valid cart that supplies a coupon with
\* usageLimit > 0 and usageCount = usageLimit is rejected.
C4_AlwaysRejected ==
    \A c \in Calls :
        (co[c].exhaustedAtRead /\ co[c].validAtRead /\ co[c].cart # <<>>)
            => co[c].pc # "done"

\* C5: usageCount never exceeds usageLimit when usageLimit > 0.
C5_UsageWithinLimit ==
    \A code \in DOMAIN coupon :
        coupon[code].usageLimit > 0
            => coupon[code].usageCount <= coupon[code].usageLimit

\* C6: when no request is between its coupon step and its commit, the
\* growth of a coupon's usageCount (from 0) is the number of persisted
\* orders that carry the coupon.
C6_UsageCountsOrders ==
    (\A c \in Calls : co[c].pc \in {"idle", "done", "failed", "closed"})
        => \A code \in DOMAIN coupon :
              coupon[code].usageCount =
                  Cardinality({k \in 1..Len(orders) :
                                  orders[k].isCouponUsed /\ orders[k].coupon = code})

\* C7: the total of an order that carries a coupon is S * (1 - d / 100) for a
\* PERCENTAGE coupon and max(0, S - f) for a FIXED coupon, S being the
\* subtotal of that order's own items; it is never negative.
C7_DiscountOnGroupSubtotal ==
    \A k \in 1..Len(orders) :
        orders[k].isCouponUsed =>
            LET S == LineSum(itemsOf(k))
                cp == coupon[orders[k].coupon]
            IN  /\ orders[k].total >= 0
                /\ cp.discountType = "PERCENTAGE"
                     => orders[k].total = 100 * S - cp.discount * S
                /\ cp.discountType = "FIXED"
                     => orders[k].total = 100 * Max(0, S - cp.discount)

\* the scenario of the specification: 2 x 100 from S1 and 1 x 50 from S2 with
\* a 10 percent coupon give the totals 180 and 45
C7_Witness ==
    \E c \in Calls :
        /\ \E k \in ordersOf(c) :
              orders[k].isCouponUsed /\ orders[k].storeId = "S1"
                 /\ orders[k].total = 18000
        /\ \E k \in ordersOf(c) :
              orders[k].isCouponUsed /\ orders[k].storeId = "S2"
                 /\ orders[k].total = 4500

\* the transition table as the specification states it
TransitionTable ==
    [PENDING |-> {"CONFIRMED", "CANCELLED"},
     CONFIRMED |-> {"PROCESSING", "CANCELLED"},
     PROCESSING |-> {"SHIPPED", "CANCELLED"},
     SHIPPED |-> {"DELIVERED"},
     DELIVERED |-> {"REFUNDED"},
     CANCELLED |-> {},
     REFUNDED |-> {}]

\* request r starts with this step, as updateOrderStatus by the owning
\* store's operator on an existing order
StartsOwnerUpdate(r) ==
    /\ st[r].pc \in {"idle", "done", "failed"}
    /\ st'[r] # st[r]
    /\ st'[r].op = "updateOrderStatus"
    /\ st'[r].orderId \in 1..Len(orders)
    /\ st'[r].userId = StoreOwner[orders[st'[r].orderId].storeId]

\* C8: updateOrderStatus by the owning store's operator goes on to write
\* the target exactly when the target is listed for the order's current
\* status; otherwise it fails with InvalidState and writes nothing; its
\* write sets the stored status to the target.
C8_UpdateFollowsTable ==
    [][\A r \in StatusCalls :
          /\ StartsOwnerUpdate(r) =>
                LET id == st'[r].orderId IN
                /\ st'[r].pc = "write"
                      <=> st'[r].target \in TransitionTable[orders[id].status]
                /\ st'[r].pc = "failed"
                      => (st'[r].error = "InvalidState" /\ orders' = orders)
          /\ (st[r].op = "updateOrderStatus" /\ st[r].pc = "write"
                 /\ st'[r].pc = "done")
                => orders'[st[r].orderId].status = st[r].target
          /\ (st[r].op = "updateOrderStatus" /\ st[r].pc # "write")
                => orders' = orders \/ st'[r] = st[r]
      ]_vars

\* DELIVERED -> REFUNDED has been carried out by updateOrderStatus
C8_Witness ==
    \E r \in StatusCalls :
        /\ st[r].op = "updateOrderStatus"
        /\ st[r].pc = "done"
        /\ st[r].read = "DELIVERED"
        /\ st[r].target = "REFUNDED"
        /\ orders[st[r].orderId].status = "REFUNDED"

\* C9: every change of an order's stored status follows an edge of the
\* transition table.
C9_ChangesFollowTable ==
    [][\A id \in 1..Len(orders) :
          orders'[id].status # orders[id].status
              => orders'[id].status \in TransitionTable[orders[id].status]
      ]_vars

\* C10: once an order is CANCELLED or REFUNDED its status never changes.
C10_TerminalStatuses ==
    [][\A id \in 1..Len(orders) :
          orders[id].status \in {"CANCELLED", "REFUNDED"}
              => orders'[id].status = orders[id].status
      ]_vars

\* C11: every OrderItem belongs to an order of the store that sells its
\* product and repeats an item of the cart the request read; the orders of
\* one request have pairwise different stores, all among the stores of the
\* cart; a request that completes on a cart spanning k stores has created k
\* orders.
C11_OneStorePerOrder ==
    /\ \A j \in 1..Len(orderItems) :
          LET k == orderItems[j].orderId IN
          /\ k \in 1..Len(orders)
          /\ product[orderItems[j].productId].storeId = orders[k].storeId
          /\ co[orders[k].call].pc # "closed" =>
                \E n \in 1..Len(co[orders[k].call].cart) :
                    /\ co[orders[k].call].cart[n].productId = orderItems[j].productId
                    /\ co[orders[k].call].cart[n].price = orderItems[j].price
    /\ \A c \in Calls :
          /\ \A k1, k2 \in ordersOf(c) :
                orders[k1].storeId = orders[k2].storeId => k1 = k2
          /\ co[c].pc # "closed" =>
                \A k \in ordersOf(c) : orders[k].storeId \in cartStores(co[c].cart)
          /\ co[c].pc = "done" =>
                Cardinality(ordersOf(c)) = Cardinality(cartStores(co[c].cart))

\* a cart of two items from two stores has become two orders of one item each
C11_Witness ==
    \E c \in Calls :
        /\ co[c].pc = "done"
        /\ Cardinality(cartStores(co[c].cart)) = 2
        /\ Cardinality(ordersOf(c)) = 2
        /\ \A k \in ordersOf(c) : Cardinality(itemsOf(k)) = 1

\* the number of items of the cart read by request c that store s sells
groupSize(c, s) ==
    Cardinality({n \in 1..Len(co[c].cart) :
                    product[co[c].cart[n].productId].storeId = s})

\* C12: in every state each persisted Order has its OrderItem rows, one for
\* every item of its store group, and every OrderItem row has its Order row,
\* also after an insert of the group's transaction has failed.
C12_OrderAndItemsAtomic ==
    /\ \A j \in 1..Len(orderItems) : orderItems[j].orderId \in 1..Len(orders)
    /\ \A k \in 1..Len(orders) :
          /\ itemsOf(k) # {}
          /\ co[orders[k].call].pc # "closed" =>
                Cardinality(itemsOf(k)) = groupSize(orders[k].call, orders[k].storeId)

\* a transaction failed after it had inserted the Order row and an
\* OrderItem row, and neither row is in the tables
C12_Witness ==
    \E c \in Calls :
        /\ co[c].pc = "failed"
        /\ co[c].error = "TxFailed"
        /\ co[c].rolledBack = 2
        /\ ordersOf(c) = {}
        /\ orderItems = <<>>

\* the orders a request has pushed on its result list are in the tables
pushedOrdersPersisted(c, os, ois) ==
    \A n \in 1..Len(co[c].orders) :
        LET id == co[c].orders[n] IN
        /\ id \in 1..Len(os)
        /\ os[id].call = c
        /\ \E j \in 1..Len(ois) : ois[j].orderId = id

\* C13: the step by which a request fails (a failed insert of group k, the
\* coupon's rejection for group k, or a failed validation) changes neither
\* table, and the orders the request committed for the groups before k are
\* still persisted after it.
C13_EarlierGroupsStay ==
    [][\A c \in Calls :
          (co[c].pc # "failed" /\ co'[c].pc = "failed") =>
              /\ orders' = orders
              /\ orderItems' = orderItems
              /\ co'[c].orders = co[c].orders
              /\ pushedOrdersPersisted(c, orders', orderItems')
      ]_vars

\* the coupon was rejected for the second group after the order of the
\* first group was committed with the coupon
C13_Witness ==
    \E c \in Calls :
        /\ co[c].pc = "failed"
        /\ co[c].error = "CouponLimit"
        /\ Len(co[c].orders) = 1
        /\ orders[co[c].orders[1]].isCouponUsed
        /\ Cardinality(cartStores(co[c].cart)) = 2

\* C14: an administrator's updateOrderStatus or cancelOrder on an existing
\* order is never denied with 403, and a request by a user who is neither
\* the store's owner, the buyer (for cancelOrder) nor an administrator is
\* denied with 403.
C14_AdminMayTransition ==
    \A r \in StatusCalls :
        (st[r].op \in {"updateOrderStatus", "cancelOrder"}
            /\ orderExists(st[r].orderId)) =>
            LET u == st[r].userId
                id == st[r].orderId
                allowed == \/ isAdmin(u)
                           \/ sellerOf(id) = u
                           \/ st[r].op = "cancelOrder" /\ orders[id].userId = u
            IN  /\ allowed => st[r].error # "AccessDenied"
                /\ ~allowed => (st[r].pc = "failed" /\ st[r].error = "AccessDenied")

\* request r starts with this step, as cancelOrder by the order's buyer
StartsBuyerCancel(r) ==
    /\ st[r].pc \in {"idle", "done", "failed"}
    /\ st'[r] # st[r]
    /\ st'[r].op = "cancelOrder"
    /\ st'[r].orderId \in 1..Len(orders)
    /\ st'[r].userId = orders[st'[r].orderId].userId

\* C15: cancelOrder by the order's buyer goes on to write CANCELLED exactly
\* when the order's current status is PENDING, CONFIRMED or PROCESSING; for
\* SHIPPED, DELIVERED, CANCELLED and REFUNDED it fails with InvalidState
\* (400) and writes nothing; its write sets the stored status to CANCELLED.
C15_BuyerCancel ==
    [][\A r \in StatusCalls :
          /\ StartsBuyerCancel(r) =>
                LET id == st'[r].orderId IN
                /\ st'[r].pc = "write"
                      <=> orders[id].status \in {"PENDING", "CONFIRMED", "PROCESSING"}
                /\ st'[r].pc # "write" =>
                      /\ st'[r].pc = "failed"
                      /\ st'[r].error = "InvalidState"
                      /\ orders[id].status \in {"SHIPPED", "DELIVERED", "CANCELLED",
                                                "REFUNDED"}
                      /\ orders' = orders
          /\ (st[r].op = "cancelOrder" /\ st[r].pc = "write" /\ st'[r].pc = "done")
                => orders'[st[r].orderId].status = "CANCELLED"
      ]_vars

\* the buyer has cancelled an order that was in PROCESSING
C15_Witness ==
    \E r \in StatusCalls :
        /\ st[r].op = "cancelOrder"
        /\ st[r].userId = Buyer
        /\ st[r].pc = "done"
        /\ st[r].read = "PROCESSING"
        /\ orders[st[r].orderId].status = "CANCELLED"

\* C16: no two persisted orders have the same orderNumber.
C16_OrderNumbersUnique ==
    \A k1, k2 \in 1..Len(orders) :
        orders[k1].orderNumber = orders[k2].orderNumber => k1 = k2

\* a transaction holds the order number of a committed order: it cannot
\* commit
C16_Witness ==
    \E c \in Calls :
        /\ co[c].pc = "txItem"
        /\ \E k \in 1..Len(orders) :
              /\ orders[k].orderNumber = co[c].orderNumber
              /\ orders[k].call # c

\* the coupon of request c is known, active and unexpired
couponInForce(c) ==
    /\ co[c].couponCode \in DOMAIN coupon
    /\ coupon[co[c].couponCode].isActive
    /\ coupon[co[c].couponCode].expiresAt > now

\* C17 (as amended): a request on a valid cart whose coupon is active,
\* unexpired and exhausted fails with InvalidState (400) and creates no
\* order; a request whose coupon is expired, inactive or unknown is not
\* rejected for it: the coupon is ignored, the orders carry no coupon and the
\* undiscounted total.
C17_ExpiredIgnoredExhaustedRejected ==
    \A c \in Calls :
        co[c].couponCode # NoCoupon =>
            /\ ~couponInForce(c) =>
                  /\ co[c].error # "CouponLimit"
                  /\ co[c].increments = 0
                  /\ \A k \in ordersOf(c) :
                        /\ ~orders[k].isCouponUsed
                        /\ orders[k].total = 100 * LineSum(itemsOf(k))
                  /\ (co[c].pc = "failed" /\ co[c].validAtRead /\ co[c].cart # <<>>)
                        => co[c].error = "TxFailed"
            /\ (couponInForce(c) /\ co[c].exhaustedAtRead /\ co[c].validAtRead
                   /\ co[c].cart # <<>> /\ Ended(c) /\ co[c].error # "TxFailed")
                  => /\ co[c].pc = "failed"
                     /\ co[c].error = "CouponLimit"
                     /\ httpStatus(co[c].error) = 400
                     /\ ordersOf(c) = {}

\* a checkout with an expired coupon has completed at the full price
C17_Witness ==
    \E c \in Calls :
        /\ co[c].pc = "done"
        /\ co[c].couponCode \in DOMAIN coupon
        /\ coupon[co[c].couponCode].isActive
        /\ coupon[co[c].couponCode].expiresAt <= now
        /\ \E k \in ordersOf(c) :
              ~orders[k].isCouponUsed /\ orders[k].total = 100 * LineSum(itemsOf(k))

\* C17 as stated: a request that supplies an expired or exhausted coupon
\* fails with 400 and creates no order (a failure of the data store itself
\* set aside).
C17_ExpiredRejected ==
    \A c \in Calls :
        (/\ co[c].couponCode \in DOMAIN coupon
         /\ \/ coupon[co[c].couponCode].expiresAt <= now
            \/ co[c].exhaustedAtRead
         /\ co[c].validAtRead /\ co[c].cart # <<>>
         /\ Ended(c) /\ co[c].error # "TxFailed")
            => (co[c].pc = "failed" /\ httpStatus(co[c].error) = 400
                /\ ordersOf(c) = {})

\* C18: the coupon decision of a request is taken once and is the same for
\* all its store groups: the orders of one request agree on isCouponUsed,
\* and a request that has committed an order is not rejected for the
\* coupon's usage limit at a later group.
C18_SingleLookup ==
    \A c \in Calls :
        /\ \A k1, k2 \in ordersOf(c) :
              orders[k1].isCouponUsed = orders[k2].isCouponUsed
        /\ co[c].error = "CouponLimit" => ordersOf(c) = {}

\* C19: no order has two OrderItem rows with the same productId.
C19_OneItemPerProduct ==
    \A j1, j2 \in 1..Len(orderItems) :
        (/\ orderItems[j1].orderId = orderItems[j2].orderId
         /\ orderItems[j1].productId = orderItems[j2].productId) => j1 = j2

\* the stores of a cart in the order of their first occurrence
storesInOrder(items) ==
    LET F[n \in 0..Len(items)] ==
            IF n = 0 THEN <<>>
            ELSE LET s == StoreOf[items[n].productId] IN
                 IF \E m \in 1..Len(F[n - 1]) : F[n - 1][m] = s
                 THEN F[n - 1]
                 ELSE Append(F[n - 1], s)
    IN  F[Len(items)]

\* C20: a request that completes returns a single order exactly when its
\* cart has one store group, and otherwise the list of its orders; the
\* returned orders are those of the cart's stores in the order of each
\* store's first occurrence among the cart items.
C20_ReturnValue ==
    \A c \in Calls :
        co[c].pc = "done" =>
            LET ss == storesInOrder(co[c].cart)
                res == co[c].result
            IN  /\ res.single <=> Len(ss) = 1
                /\ Len(res.orders) = Len(ss)
                /\ \A n \in 1..Len(ss) :
                      /\ res.orders[n] \in ordersOf(c)
                      /\ orders[res.orders[n]].storeId = ss[n]

\* a cart that lists the product of S2 before the product of S1 has
\* returned the order of S2 before the order of S1
C20_Witness ==
    \E c \in Calls :
        /\ co[c].pc = "done"
        /\ ~co[c].result.single
        /\ Len(co[c].result.orders) = 2
        /\ orders[co[c].result.orders[1]].storeId = "S2"
        /\ orders[co[c].result.orders[2]].storeId = "S1"

\* the OrderItem rows of the orders of request c repeat the cart it read
orderedItemsMatch(c, os, ois) ==
    LET mine == {j \in 1..Len(ois) : os[ois[j].orderId].call = c} IN
    /\ Cardinality(mine) = Len(co[c].cart)
    /\ \A n \in 1..Len(co[c].cart) :
          \E j \in mine : /\ ois[j].productId = co[c].cart[n].productId
                           /\ ois[j].price = co[c].cart[n].price
                           /\ ois[j].quantity = co[c].cart[n].quantity

\* C21: the step that ends a checkout writes the empty cart whatever the
\* stored cart is by then, and the orders are those of the cart the request
\* read: a cart update committed in between is lost.
C21_CartUpdateLost ==
    [][\A c \in Calls :
          (co[c].pc = "clearCart" /\ co'[c].pc = "done") =>
              /\ userCart' = <<>>
              /\ orderedItemsMatch(c, orders', orderItems')
      ]_vars

\* a checkout has completed although the cart was replaced after it was read
C21_Witness ==
    \E c \in Calls :
        /\ co[c].pc = "done"
        /\ co[c].cartOverwritten
        /\ userCart = <<>>
        /\ ordersOf(c) # {}

\* C26: once a checkout has succeeded and the stored cart is empty, a
\* getCart request that starts then returns the empty cart.
C26_GetCartAfterCheckout ==
    [][(/\ \E c \in Calls : co[c].pc = "done"
        /\ userCart = <<>>
        /\ gc.pc \in {"idle", "done"}
        /\ gc' # gc
        /\ gc'.pc = "done")
          => gc'.cart = <<>>
      ]_vars

C28_OtpSingleUse ==
    \A k \in 1..Len(otps) : otps[k].accepted <= 1

\* the OTP records no request has marked used
unusedOtps == {k \in 1..Len(otps) : ~otps[k].isUsed}

\* C29: after any interleaving of sendOtp and verifyOtp the user has at most
\* one unused OTP of the type.
C29_OneUnusedOtp ==
    Cardinality(unusedOtps) <= 1

\* C27: of two overlapping createOrder requests on a cart that is not refilled
\* in between, at most one creates orders.
C27_CartOrderedOnce ==
    ~(\A c \in Calls : ordersOf(c) # {})

\* the error the first failing check of a cart item gives: existence (404),
\* then stock (400), then price equality (400)
firstFailingCheck(item) ==
    IF ~product[item.productId].exists THEN "ProductNotFound"
    ELSE IF ~product[item.productId].inStock THEN "OutOfStock"
    ELSE IF product[item.productId].price # item.price THEN "PriceChanged"
    ELSE "ok"

\* C25: createOrder fails fast before any write. A request that reads an empty
\* cart fails with CartEmpty (400) at once; a validation step fails exactly
\* when its item has a failing check, with the error of the item's first
\* failing check, every earlier item of the cart having passed; and a request
\* that fails in these steps has looked up and incremented no coupon and
\* inserted no row: coupon counters and the order store are unchanged.
C25_FailFastBeforeWrites ==
    [][\A c \in Calls :
          /\ (co[c].pc = "idle" /\ co'[c].pc # "idle") =>
                /\ (co'[c].pc = "failed") = (userCart = <<>>)
                /\ co'[c].pc = "failed" =>
                      /\ co'[c].error = "CartEmpty"
                      /\ httpStatus(co'[c].error) = 400
          /\ (co[c].pc = "validate" /\ co'[c] # co[c]) =>
                LET item == co[c].cart[co[c].i] IN
                /\ (co'[c].pc = "failed") = (firstFailingCheck(item) # "ok")
                /\ co'[c].pc = "failed" =>
                      /\ co'[c].error = firstFailingCheck(item)
                      /\ httpStatus(co'[c].error) =
                            (IF product[item.productId].exists THEN 400 ELSE 404)
                      /\ \A j \in 1..(co[c].i - 1) :
                            firstFailingCheck(co[c].cart[j]) = "ok"
          /\ (co[c].pc \in {"idle", "validate"} /\ co'[c].pc = "failed") =>
                /\ coupon' = coupon
                /\ orders' = orders
                /\ orderItems' = orderItems
                /\ co[c].increments = 0
                /\ ordersOf(c) = {}
      ]_vars

\* a request with a coupon code has failed on its second item, which is both
\* out of stock and changed in price
C25_Witness ==
    \E c \in Calls :
        /\ co[c].pc = "failed"
        /\ co[c].error = "OutOfStock"
        /\ co[c].couponCode # NoCoupon
        /\ Len(co[c].cart) = 2
        /\ firstFailingCheck(co[c].cart[1]) = "ok"
        /\ product[co[c].cart[2].productId].price # co[c].cart[2].price
        /\ ~product[co[c].cart[2].productId].inStock
        /\ ordersOf(c) = {}

\* the order a rating names belongs to the rating user, is DELIVERED and
\* contains the rated product
eligibleOrder(r) ==
    /\ r.orderId \in 1..Len(orders)
    /\ orders[r.orderId].userId = r.userId
    /\ orders[r.orderId].status = "DELIVERED"
    /\ \E j \in itemsOf(r.orderId) : orderItems[j].productId = r.productId

\* C23: a rating is stored only for an order of the rating user that is
\* DELIVERED and contains the rated product, and at most one rating exists
\* per (user, product, order).
C23_RatingNeedsDeliveredOrder ==
    [][/\ \A k \in (Len(ratings) + 1)..Len(ratings') : eligibleOrder(ratings'[k])
       /\ \A k, l \in 1..Len(ratings') : ratings'[k] = ratings'[l] => k = l
      ]_vars

\* C24: once a session has been removed, no authenticate call with an
\* access token bound to it and no refreshToken call with the refresh token
\* it held succeeds; authenticate answers 401.
C24_RevocationEffective ==
    \A x \in AuthCalls :
        (ax[x].op \in {"authenticate", "refreshToken"} /\ ax[x].revoked) =>
            /\ ax[x].pc # "done"
            /\ ax[x].op = "authenticate" =>
                  ax[x].pc = "failed" /\ ax[x].error = "Unauthorized"

\* C30: a refresh token is redeemed by at most one successful refreshToken
\* call.
C30_RefreshTokenSingleUse ==
    \A t \in Tokens : redeemed[t] <= 1

\* ------------------------------------------------ overlapping requests
\* no createOrder request has started
NoneStarted == \A c \in Calls : co[c].pc = "idle"

\* the buyer fills the cart, then the requests of Calls overlap freely
NextConcurrent ==
    \/ \E items \in Carts : NoneStarted /\ updateCart(items)
    \/ Tick
    \/ \E c \in Calls : createOrder(c)

SpecConcurrent == Init /\ [][NextConcurrent]_vars
\* ------------------------------------------------------ cart and cache
\* a checkout of the buyer while the buyer's other requests update, read and
\* clear the cart and the cache entry expires
NextCart ==
    \/ \E items \in Carts : updateCart(items)
    \/ createOrder("c1")
    \/ getCart
    \/ clearCart
    \/ cacheExpire

SpecCart == Init /\ [][NextCart]_vars
\* ------------------------------------------------------------------ OTP
\* everything below happens within fifteen minutes of the first request, so
\* that no counter set by cache.expire(key, 900) runs out; an OTP, valid for
\* ten minutes, may expire
orderFrame ==
    UNCHANGED <<product, userCart, coupon, now, orders, orderItems, co, envOps, st,
                cartVars, ratingVars, authVars>>

\* request o starts: it counts against the budget of one exploration
otpStart(o) ==
    /\ otpReq[o].pc \in {"idle", "done", "failed"}
    /\ otpOps < MaxOtpRequests
    /\ otpOps' = otpOps + 1

otpFailed(o, err) == [otpReq EXCEPT ![o].pc = "failed", ![o].error = err]

\* sendOtp, lines 13-27: the user is found, the rate counter is read
sendOtpCheck(o) ==
    /\ otpStart(o)
    /\ otpReq' = IF otpCache.rate >= OtpRateLimit
                 THEN otpFailed(o, "TooManyRequests")
                 ELSE [otpReq EXCEPT ![o] =
                         [IdleOtpCall EXCEPT !.pc = "invalidate", !.op = "sendOtp"]]
    /\ UNCHANGED <<otps, otpCache>>
    /\ orderFrame

\* sendOtp, lines 29-37: every unused OTP of the type is marked used
sendOtpInvalidate(o) ==
    /\ otpReq[o].pc = "invalidate"
    /\ otps' = [k \in 1..Len(otps) |-> [otps[k] EXCEPT !.isUsed = TRUE]]
    /\ otpReq' = [otpReq EXCEPT ![o].pc = "create"]
    /\ UNCHANGED otpCache
    /\ UNCHANGED otpOps
    /\ orderFrame

\* sendOtp, lines 39-52: a code is generated and the OTP is stored
sendOtpCreate(o) ==
    /\ otpReq[o].pc = "create"
    /\ \E code \in OtpCodes :
          /\ otps' = Append(otps, [code |-> code, isUsed |-> FALSE,
                                    expired |-> FALSE, accepted |-> 0])
          /\ otpReq' = [otpReq EXCEPT ![o].pc = "incr", ![o].code = code]
    /\ UNCHANGED otpCache
    /\ UNCHANGED otpOps
    /\ orderFrame

\* sendOtp, lines 54-66: the rate counter is incremented, its time to live
\* set to fifteen minutes, the mail sent
sendOtpIncr(o) ==
    /\ otpReq[o].pc = "incr"
    /\ otpCache' = [otpCache EXCEPT !.rate = @ + 1]
    /\ otpReq' = [otpReq EXCEPT ![o].pc = "done"]
    /\ UNCHANGED otps
    /\ UNCHANGED otpOps
    /\ orderFrame

sendOtp(o) ==
    \/ sendOtpCheck(o)
    \/ sendOtpInvalidate(o)
    \/ sendOtpCreate(o)
    \/ sendOtpIncr(o)

\* the OTP records verifyOtp's findFirst may return for a code
otpMatches(code) ==
    {k \in 1..Len(otps) :
        otps[k].code = code /\ ~otps[k].isUsed /\ ~otps[k].expired}

\* verifyOtp, lines 73-88: the user is found, the attempts counter is read
verifyOtpCheck(o, code) ==
    /\ otpStart(o)
    /\ otpReq' = IF otpCache.attempts >= OtpAttemptLimit
                 THEN otpFailed(o, "TooManyAttempts")
                 ELSE [otpReq EXCEPT ![o] =
                         [IdleOtpCall EXCEPT !.pc = "find", !.op = "verifyOtp",
                                             !.code = code]]
    /\ UNCHANGED <<otps, otpCache>>
    /\ orderFrame

\* verifyOtp, lines 90-100: an unused, unexpired OTP with the code is looked up
verifyOtpFind(o) ==
    /\ otpReq[o].pc = "find"
    /\ IF otpMatches(otpReq[o].code) = {}
       THEN otpReq' = [otpReq EXCEPT ![o].pc = "countAttempt"]
       ELSE \E k \in otpMatches(otpReq[o].code) :
               otpReq' = [otpReq EXCEPT ![o].pc = "markUsed", ![o].otp = k]
    /\ UNCHANGED <<otps, otpCache>>
    /\ UNCHANGED otpOps
    /\ orderFrame

\* verifyOtp, lines 102-108: no such OTP: the attempt is counted, 400
verifyOtpReject(o) ==
    /\ otpReq[o].pc = "countAttempt"
    /\ otpCache' = [otpCache EXCEPT !.attempts = @ + 1]
    /\ otpReq' = otpFailed(o, "InvalidOrExpiredOtp")
    /\ UNCHANGED otps
    /\ UNCHANGED otpOps
    /\ orderFrame

\* verifyOtp, lines 110-117: the OTP found is marked used
verifyOtpMarkUsed(o) ==
    /\ otpReq[o].pc = "markUsed"
    /\ otps' = [otps EXCEPT ![otpReq[o].otp].isUsed = TRUE,
                            ![otpReq[o].otp].accepted = @ + 1]
    /\ otpReq' = [otpReq EXCEPT ![o].pc = "clear"]
    /\ UNCHANGED otpCache
    /\ UNCHANGED otpOps
    /\ orderFrame

\* verifyOtp, lines 119-158: both counters are deleted, the user updated
verifyOtpClear(o) ==
    /\ otpReq[o].pc = "clear"
    /\ otpCache' = NoCounters
    /\ otpReq' = [otpReq EXCEPT ![o].pc = "done"]
    /\ UNCHANGED otps
    /\ UNCHANGED otpOps
    /\ orderFrame

verifyOtp(o) ==
    \/ \E code \in OtpCodes : verifyOtpCheck(o, code)
    \/ verifyOtpFind(o)
    \/ verifyOtpReject(o)
    \/ verifyOtpMarkUsed(o)
    \/ verifyOtpClear(o)

\* ten minutes have passed since the oldest unexpired OTP was created
otpExpire ==
    /\ \E k \in 1..Len(otps) :
          /\ ~otps[k].expired
          /\ \A j \in 1..(k - 1) : otps[j].expired
          /\ otps' = [otps EXCEPT ![k].expired = TRUE]
    /\ UNCHANGED <<otpCache, otpReq, otpOps>>
    /\ orderFrame

\* the requests are served one at a time
NextOtp ==
    \/ sendOtp("o1")
    \/ verifyOtp("o1")
    \/ otpExpire

SpecOtp == Init /\ [][NextOtp]_vars

\* request o is running, or the budget of overlapping requests allows it
otpMayOverlap(o) ==
    otpReq[o].pc \in {"idle", "done", "failed"} => otpOps < MaxOtpOverlapping

\* the requests of OtpCalls overlap freely
NextOtpConcurrent ==
    \/ \E o \in OtpCalls : otpMayOverlap(o) /\ sendOtp(o)
    \/ \E o \in OtpCalls : otpMayOverlap(o) /\ verifyOtp(o)
    \/ otpExpire

SpecOtpConcurrent == Init /\ [][NextOtpConcurrent]_vars

\* -------------------------------------------------------------- ratings
\* the users who rate, and the order ids their requests name
Raters == {Buyer, "other"}

ratingFrame ==
    UNCHANGED <<product, userCart, coupon, now, orders, orderItems, co, envOps, st,
                cartVars, otps, otpCache, otpReq, otpOps, authVars>>

\* lines 470-485: some DELIVERED order of the user contains the product
hasDeliveredOrder(u, p) ==
    \E k \in 1..Len(orders) :
        /\ orders[k].userId = u
        /\ orders[k].status = "DELIVERED"
        /\ \E j \in 1..Len(orderItems) :
              orderItems[j].orderId = k /\ orderItems[j].productId = p

\* lines 492-500: the rating of (userId, productId, orderId), if any
ratingExists(u, p, id) ==
    \E k \in 1..Len(ratings) :
        ratings[k] = [userId |-> u, productId |-> p, orderId |-> id]

\* lines 468-489: addRating looks for a purchase of the product
addRatingFind(a, u, p, id) ==
    /\ rt[a].pc \in {"idle", "done", "failed"}
    /\ ratingOps < MaxRatingRequests
    /\ ratingOps' = ratingOps + 1
    /\ LET rec == [IdleRatingCall EXCEPT !.userId = u, !.productId = p,
                                         !.orderId = id]
       IN  rt' = [rt EXCEPT ![a] =
                IF hasDeliveredOrder(u, p)
                THEN [rec EXCEPT !.pc = "existing"]
                ELSE [rec EXCEPT !.pc = "failed", !.error = "NotPurchased"]]
    /\ UNCHANGED ratings
    /\ ratingFrame

\* lines 491-504: addRating looks for a rating of the same order
addRatingExisting(a) ==
    /\ rt[a].pc = "existing"
    /\ rt' = [rt EXCEPT ![a] =
                IF ratingExists(rt[a].userId, rt[a].productId, rt[a].orderId)
                THEN [@ EXCEPT !.pc = "failed", !.error = "AlreadyRated"]
                ELSE [@ EXCEPT !.pc = "create"]]
    /\ UNCHANGED <<ratings, ratingOps>>
    /\ ratingFrame

\* lines 506-527: the rating is inserted; the unique index of
\* (userId, productId, orderId) rejects a second row
addRatingCreate(a) ==
    /\ rt[a].pc = "create"
    /\ IF ratingExists(rt[a].userId, rt[a].productId, rt[a].orderId)
       THEN /\ rt' = [rt EXCEPT ![a].pc = "failed", ![a].error = "P2002"]
            /\ UNCHANGED ratings
       ELSE /\ ratings' = Append(ratings, [userId |-> rt[a].userId,
                                           productId |-> rt[a].productId,
                                           orderId |-> rt[a].orderId])
            /\ rt' = [rt EXCEPT ![a].pc = "done"]
    /\ UNCHANGED ratingOps
    /\ ratingFrame

addRating(a) ==
    \/ \E u \in Raters, p \in Products, id \in 1..Len(orders) :
          addRatingFind(a, u, p, id)
    \/ addRatingExisting(a)
    \/ addRatingCreate(a)

\* the state after three checkouts: the buyer's order of pA and the other
\* user's order of pA have been shipped, the buyer's order of pB is pending
InitRating ==
    /\ st = [r \in StatusCalls |-> IdleStatusCall]
    /\ product = [p \in Products |->
                    [exists |-> TRUE, price |-> IF p = "pA" THEN 100 ELSE 50,
                     inStock |-> TRUE, storeId |-> StoreOf[p]]]
    /\ userCart = <<>>
    /\ coupon = <<>>
    /\ now = 0
    /\ orders = <<[id |-> 1, orderNumber |-> 1, total |-> 20000, status |-> "SHIPPED",
                   userId |-> Buyer, storeId |-> "S1", isCouponUsed |-> FALSE,
                   coupon |-> NoCoupon, call |-> "c1"],
                  [id |-> 2, orderNumber |-> 2, total |-> 5000, status |-> "PENDING",
                   userId |-> Buyer, storeId |-> "S2", isCouponUsed |-> FALSE,
                   coupon |-> NoCoupon, call |-> "c1"],
                  [id |-> 3, orderNumber |-> 3, total |-> 20000, status |-> "SHIPPED",
                   userId |-> "other", storeId |-> "S1", isCouponUsed |-> FALSE,
                   coupon |-> NoCoupon, call |-> "c2"]>>
    /\ orderItems = <<[orderId |-> 1, productId |-> "pA", quantity |-> 2,
                       price |-> 100],
                      [orderId |-> 2, productId |-> "pB", quantity |-> 1,
                       price |-> 50],
                      [orderId |-> 3, productId |-> "pA", quantity |-> 2,
                       price |-> 100]>>
    /\ co = [c \in Calls |-> [IdleCall EXCEPT !.pc = "closed"]]
    /\ envOps = 0
    /\ cartCache = NoEntry
    /\ gc = IdleGetCart
    /\ otps = <<>>
    /\ otpCache = NoCounters
    /\ otpReq = [o \in OtpCalls |-> IdleOtpCall]
    /\ otpOps = 0
    /\ ratings = <<>>
    /\ rt = [a \in RatingCalls |-> IdleRatingCall]
    /\ ratingOps = 0
    /\ sessions = <<>>
    /\ userActive = TRUE
    /\ sec = 0
    /\ ax = [x \in AuthCalls |-> IdleAuthCall]
    /\ authOps = 0
    /\ issued = {}
    /\ redeemed = [t \in Tokens |-> 0]

\* the seller of S1 moves its orders on while ratings are submitted
NextRating ==
    \/ \E a \in RatingCalls : addRating(a)
    \/ \E id \in {1, 3}, target \in {"DELIVERED", "REFUNDED"} :
          uosRead("r1", id, target, "seller1")
    \/ uosWrite("r1")

SpecRating == InitRating /\ [][NextRating]_vars

\* ------------------------------------------------------------- sessions
authFrame ==
    UNCHANGED <<product, userCart, coupon, now, orders, orderItems, co, envOps, st,
                cartVars, otps, otpCache, otpReq, otpOps, ratingVars>>

\* request x starts: it counts against the budget of one exploration
authStart(x) ==
    /\ ax[x].pc \in {"idle", "done", "failed"}
    /\ authOps < MaxAuthRequests
    /\ authOps' = authOps + 1

authCall(op) == [IdleAuthCall EXCEPT !.op = op]

authFailed(rec, err) == [rec EXCEPT !.pc = "failed", !.error = err]

\* jwtUtils.generateRefreshToken: the token signed in the current second
generateRefreshToken == sec

\* the sessions whose login has stored a refresh token
loggedIn == {k \in 1..Len(sessions) : sessions[k].token # NoToken}

\* session.deleteMany where userId
deleteAll == [k \in 1..Len(sessions) |-> [sessions[k] EXCEPT !.alive = FALSE]]

\* a second passes
authTick ==
    /\ sec < MaxClock
    /\ sec' = sec + 1
    /\ UNCHANGED <<sessions, userActive, ax, authOps, issued, redeemed>>
    /\ authFrame

\* login, lines 54-77: the user is found and must be active
loginFind(x) ==
    /\ authStart(x)
    /\ ax' = [ax EXCEPT ![x] =
                IF userActive THEN [authCall("login") EXCEPT !.pc = "createSession"]
                ELSE authFailed(authCall("login"), "Unauthorized")]
    /\ UNCHANGED <<sessions, userActive, sec, issued, redeemed>>
    /\ authFrame

\* login, lines 80-94 and createSession: a session with token '' is
\* inserted, then the tokens are signed
loginCreate(x) ==
    /\ ax[x].pc = "createSession"
    /\ sessions' = Append(sessions, [alive |-> TRUE, token |-> NoToken])
    /\ ax' = [ax EXCEPT ![x].pc = "setToken", ![x].sid = Len(sessions) + 1,
                        ![x].newToken = generateRefreshToken]
    /\ UNCHANGED <<userActive, sec, authOps, issued, redeemed>>
    /\ authFrame

\* login, lines 97-100: the refresh token is stored in the session
loginSetToken(x) ==
    /\ ax[x].pc = "setToken"
    /\ IF sessions[ax[x].sid].alive
       THEN /\ sessions' = [sessions EXCEPT ![ax[x].sid].token = ax[x].newToken]
            /\ ax' = [ax EXCEPT ![x].pc = "done"]
            /\ issued' = issued \cup {ax[x].newToken}
       ELSE /\ ax' = [ax EXCEPT ![x] = authFailed(@, "RecordNotFound")]
            /\ UNCHANGED <<sessions, issued>>
    /\ UNCHANGED <<userActive, sec, authOps, redeemed>>
    /\ authFrame

login(x) == loginFind(x) \/ loginCreate(x) \/ loginSetToken(x)

\* the sessions refreshToken's findFirst may return for a token
sessionMatches(t) ==
    {k \in 1..Len(sessions) : sessions[k].alive /\ sessions[k].token = t}

\* the token was the stored token of a session when that session was removed
heldByRemoved(t) ==
    \E k \in 1..Len(sessions) : ~sessions[k].alive /\ sessions[k].token = t

\* refreshToken, lines 132-171: the token is verified, the session is
\* looked up by token, the new tokens are signed
refreshFind(x, t) ==
    /\ authStart(x)
    /\ LET rec == [authCall("refreshToken") EXCEPT !.token = t,
                                                    !.revoked = heldByRemoved(t)]
       IN  IF sessionMatches(t) = {}
           THEN ax' = [ax EXCEPT ![x] = authFailed(rec, "Unauthorized")]
           ELSE \E k \in sessionMatches(t) :
                   ax' = [ax EXCEPT ![x] =
                            IF ~userActive THEN authFailed(rec, "Unauthorized")
                            ELSE [rec EXCEPT !.pc = "update", !.sid = k,
                                             !.newToken = generateRefreshToken]]
    /\ UNCHANGED <<sessions, userActive, sec, issued, redeemed>>
    /\ authFrame

\* refreshToken, lines 173-192: the new refresh token replaces the stored
\* one and the tokens are returned
refreshUpdate(x) ==
    /\ ax[x].pc = "update"
    /\ IF sessions[ax[x].sid].alive
       THEN /\ sessions' = [sessions EXCEPT ![ax[x].sid].token = ax[x].newToken]
            /\ ax' = [ax EXCEPT ![x].pc = "done"]
            /\ issued' = issued \cup {ax[x].newToken}
            /\ redeemed' = [redeemed EXCEPT ![ax[x].token] = @ + 1]
       ELSE /\ ax' = [ax EXCEPT ![x] = authFailed(@, "RecordNotFound")]
            /\ UNCHANGED <<sessions, issued, redeemed>>
    /\ UNCHANGED <<userActive, sec, authOps>>
    /\ authFrame

refreshToken(x) ==
    \/ \E t \in issued : refreshFind(x, t)
    \/ refreshUpdate(x)

\* authenticate with an unexpired access token bound to session sid
authenticate(x, sid) ==
    /\ authStart(x)
    /\ LET rec == [authCall("authenticate") EXCEPT !.sid = sid,
                                                    !.revoked = ~sessions[sid].alive]
       IN  ax' = [ax EXCEPT ![x] =
                IF ~sessions[sid].alive THEN authFailed(rec, "Unauthorized")
                ELSE IF ~userActive THEN authFailed(rec, "Unauthorized")
                ELSE [rec EXCEPT !.pc = "done"]]
    /\ UNCHANGED <<sessions, userActive, sec, issued, redeemed>>
    /\ authFrame

\* logout: the session of the access token is deleted
logout(sid) ==
    /\ sessions[sid].alive
    /\ sessions' = [sessions EXCEPT ![sid].alive = FALSE]
    /\ UNCHANGED <<userActive, sec, ax, authOps, issued, redeemed>>
    /\ authFrame

\* logoutAll: every session of the user is deleted
logoutAll ==
    /\ \E k \in 1..Len(sessions) : sessions[k].alive
    /\ sessions' = deleteAll
    /\ UNCHANGED <<userActive, sec, ax, authOps, issued, redeemed>>
    /\ authFrame

\* revokeSession, lines 309-318: the session is looked up by id and user
revokeFind(x, sid) ==
    /\ authStart(x)
    /\ ax' = [ax EXCEPT ![x] =
                IF sessions[sid].alive
                THEN [authCall("revokeSession") EXCEPT !.pc = "delete", !.sid = sid]
                ELSE authFailed([authCall("revokeSession") EXCEPT !.sid = sid],
                                "NotFound")]
    /\ UNCHANGED <<sessions, userActive, sec, issued, redeemed>>
    /\ authFrame

\* revokeSession, lines 320-322: the session is deleted
revokeDelete(x) ==
    /\ ax[x].pc = "delete"
    /\ sessions' = [sessions EXCEPT ![ax[x].sid].alive = FALSE]
    /\ ax' = [ax EXCEPT ![x] = IF sessions[ax[x].sid].alive
                               THEN [@ EXCEPT !.pc = "done"]
                               ELSE authFailed(@, "RecordNotFound")]
    /\ UNCHANGED <<userActive, sec, authOps, issued, redeemed>>
    /\ authFrame

revokeSession(x) ==
    \/ \E sid \in loggedIn : revokeFind(x, sid)
    \/ revokeDelete(x)

\* updateUserStatus, lines 328-341: isActive is written
updateUserStatusWrite(x, isActive) ==
    /\ authStart(x)
    /\ userActive' = isActive
    /\ ax' = [ax EXCEPT ![x] =
                [authCall("updateUserStatus") EXCEPT
                     !.pc = IF isActive THEN "done" ELSE "deleteSessions"]]
    /\ UNCHANGED <<sessions, sec, issued, redeemed>>
    /\ authFrame

\* updateUserStatus, lines 343-348: a deactivated user's sessions are deleted
updateUserStatusSessions(x) ==
    /\ ax[x].pc = "deleteSessions"
    /\ sessions' = deleteAll
    /\ ax' = [ax EXCEPT ![x].pc = "done"]
    /\ UNCHANGED <<userActive, sec, authOps, issued, redeemed>>
    /\ authFrame

updateUserStatus(x) ==
    \/ \E isActive \in BOOLEAN : updateUserStatusWrite(x, isActive)
    \/ updateUserStatusSessions(x)

\* the auth requests of AuthCalls overlap freely
NextAuth ==
    \/ authTick
    \/ \E x \in AuthCalls : login(x)
    \/ \E x \in AuthCalls : refreshToken(x)
    \/ \E x \in AuthCalls, sid \in loggedIn : authenticate(x, sid)
    \/ \E sid \in loggedIn : logout(sid)
    \/ logoutAll
    \/ \E x \in AuthCalls : revokeSession(x)
    \/ \E x \in AuthCalls : updateUserStatus(x)

SpecAuth == Init /\ [][NextAuth]_vars
====
